---------------------------- MODULE Spec2Model ----------------------------
(***************************************************************************)
(* celophane: a command-line client that resolves contract addresses       *)
(* through the Celo registry and issues read-only contract calls.          *)
(*                                                                         *)
(* One run of the process is modelled: argument values are chosen in Init, *)
(* main selects a provider, run_command dispatches to account_balance or   *)
(* exchange_show, and the futures joined by tokio::join! advance one await *)
(* point at a time.  The remote node is the environment: it answers every  *)
(* call with Ok(value) or Err.                                             *)
(***************************************************************************)
EXTENDS Integers, Sequences, FiniteSets, TLC

VARIABLES
    args,         \* CelophaneOpt: endpoint scheme and the sub-command with its argument
    pc,           \* position of main
    provider,     \* EitherProvider chosen by create_provider ("None" before)
    connections,  \* number of connections opened by the provider selector
    calls,        \* remote calls in issue order, each with the node's answer
    fut,          \* account_balance: the three get_balance futures
    exchange,     \* exchange_show: the Exchange handle (Option<Address>)
    quote,        \* exchange_show: the two get_buy_token_amount call futures
    done,         \* join branches in the order they completed
    stdout,       \* lines printed so far
    exit          \* how the process ended

vars == <<args, pc, provider, connections, calls, fut, exchange, quote, done, stdout, exit>>

-----------------------------------------------------------------------------
(* Bounds of the model *)

\* largest balance the node answers balanceOf with
MaxBalance == 1
\* largest --amount argument and largest quote the node answers with
MaxAmount == 1

-----------------------------------------------------------------------------
(* Values *)

None == [tag |-> "None"]
Some(v) == [tag |-> "Some", v |-> v]
Ok(v) == [tag |-> "Ok", v |-> v]
Err(e) == [tag |-> "Err", e |-> e]
Panic(site) == [tag |-> "Panic", e |-> site]
Pending == [tag |-> "Pending"]
Running == [tag |-> "Running"]

\* URL schemes tried as --endpoint
Schemes == {"http", "https", "ws", "wss", "ftp", "file"}

\* <address> argument of `account balance`
Accounts == {7}

\* addresses the registry answers with; 0 is what it answers for an unknown name
Addresses == {0, 1}

\* celo.rs:7, one hex digit per element
REGISTRY_ADDRESS ==
    <<0,0,0,0,0,0,0,0,0,0, 0,0,0,0,0,0,0,0,0,0,
      0,0,0,0,0,0,0,0,0,0, 0,0,0,0,0,0,12,14,1,0>>

EXCHANGE == "Exchange"
GOLD_TOKEN == "GoldToken"
STABLE_TOKEN == "StableToken"
STABLE_TOKEN_EUR == "StableTokenEUR"

\* the join branches of account_balance, in the order join! lists them
Branches == 1..3
TokenName(t) == CASE t = 1 -> GOLD_TOKEN [] t = 2 -> STABLE_TOKEN [] OTHER -> STABLE_TOKEN_EUR
Label(t) == CASE t = 1 -> "CELO" [] t = 2 -> "cUSD" [] OTHER -> "cEUR"

\* the join branches of exchange_show: 1 is the sell_gold = true call, 2 the false one
Quotes == 1..2
SellGold(q) == q = 1

-----------------------------------------------------------------------------
(* Pure functions *)

RECURSIVE HexValue(_)
HexValue(s) ==
    IF s = <<>> THEN 0
    ELSE 16 * HexValue(SubSeq(s, 1, Len(s) - 1)) + s[Len(s)]

\* <Address as FromStr>::from_str: 40 hex digits
ParseAddress(s) ==
    IF Len(s) = 40 /\ \A i \in 1..Len(s) : s[i] \in 0..15
    THEN Ok(HexValue(s))
    ELSE Err("FromHexError")

Digit(d) ==
    CASE d = 0 -> "0" [] d = 1 -> "1" [] d = 2 -> "2" [] d = 3 -> "3" [] d = 4 -> "4"
      [] d = 5 -> "5" [] d = 6 -> "6" [] d = 7 -> "7" [] d = 8 -> "8" [] OTHER -> "9"

\* Display of U256: decimal
RECURSIVE DecStr(_)
DecStr(n) == IF n < 10 THEN Digit(n) ELSE DecStr(n \div 10) \o Digit(n % 10)

HeaderLine == "All balances expressed in units of 10^-18."
BalanceLine(label, balance) == label \o ": " \o DecStr(balance)
CusdQuoteLine(base, q) == DecStr(base) \o " CELO => " \o DecStr(q) \o " cUSD"
CeloQuoteLine(base, q) == DecStr(base) \o " cUSD => " \o DecStr(q) \o " CELO"

\* main.rs:55 print_balance: the lines it appends to stdout
print_balance(maybe_balance, label) ==
    IF maybe_balance.tag = "Some" THEN <<BalanceLine(label, maybe_balance.v)>> ELSE <<>>

\* create_provider with a catch-all arm that falls back to the HTTP transport
create_provider_default_http(scheme, connected) ==
    CASE scheme \in {"wss", "ws"} ->
            [res |-> IF connected THEN Ok("Ws") ELSE Err("connect failed"), connects |-> 1]
      [] OTHER -> [res |-> Ok("Http"), connects |-> 0]

\* main.rs:129 create_provider: the transport chosen for a scheme, connected tells
\* whether Ws::connect succeeded
create_provider(scheme, connected) ==
    CASE scheme \in {"https", "http"} -> [res |-> Ok("Http"), connects |-> 0]
      [] scheme \in {"wss", "ws"} ->
            [res |-> IF connected THEN Ok("Ws") ELSE Err("connect failed"), connects |-> 1]
      [] OTHER -> [res |-> Err("Unknown URL scheme \"" \o scheme \o "\""), connects |-> 0]

\* celo.rs:45-50: what registry_lookup makes of the node's answer: unwrap, then Ok
registry_lookup(resp) ==
    IF resp.tag = "Ok" THEN Ok(resp.v) ELSE Panic("registry_lookup")

\* get_erc20_token binding the token to the registry's own address instead of
\* the address looked up
get_erc20_token_at_registry(lookup) ==
    IF lookup.tag = "Ok" THEN Ok(HexValue(REGISTRY_ADDRESS)) ELSE lookup

\* celo.rs:18 get_erc20_token: `?` on the lookup, then Erc20::new(address, client)
get_erc20_token(lookup) ==
    IF lookup.tag = "Ok" THEN Ok(lookup.v) ELSE lookup

\* celo.rs:36 get_exchange: unwrap on the lookup, then Exchange::new(address, client)
get_exchange(lookup) ==
    IF lookup.tag = "Ok" THEN Ok(lookup.v)
    ELSE IF lookup.tag = "Panic" THEN lookup ELSE Panic("get_exchange")

\* get_balance taking a zero balance for a missing one
get_balance_zero_is_none(resp) ==
    IF resp.tag = "Ok" /\ resp.v # 0 THEN Some(resp.v) ELSE None

\* main.rs:69-73: the inner match of get_balance on the balance_of answer
get_balance(resp) ==
    IF resp.tag = "Ok" THEN Some(resp.v) ELSE None

\* account_balance printing cUSD before CELO
account_balance_lines_reordered(celo, cusd, ceur) ==
    <<HeaderLine>> \o print_balance(cusd, "cUSD") \o print_balance(celo, "CELO")
                   \o print_balance(ceur, "cEUR")

\* main.rs:86-89: what account_balance prints from the three joined Options
account_balance_lines(celo, cusd, ceur) ==
    <<HeaderLine>> \o print_balance(celo, "CELO") \o print_balance(cusd, "cUSD")
                   \o print_balance(ceur, "cEUR")

\* exchange_show printing each quote on the other direction's line
exchange_show_print_swapped(base_qty, cusd_quote_qty, celo_quote_qty) ==
    IF cusd_quote_qty.tag # "Ok"
    THEN [out |-> <<>>, exit |-> Panic("exchange_show")]
    ELSE IF celo_quote_qty.tag # "Ok"
    THEN [out |-> <<CusdQuoteLine(base_qty, cusd_quote_qty.v)>>,
          exit |-> Panic("exchange_show")]
    ELSE [out |-> <<CusdQuoteLine(base_qty, celo_quote_qty.v),
                    CeloQuoteLine(base_qty, cusd_quote_qty.v)>>,
          exit |-> Ok("unit")]

\* exchange_show dropping a failed quote the way print_balance drops a balance
exchange_show_print_lenient(base_qty, cusd_quote_qty, celo_quote_qty) ==
    [out |-> (IF cusd_quote_qty.tag = "Ok"
              THEN <<CusdQuoteLine(base_qty, cusd_quote_qty.v)>> ELSE <<>>)
             \o (IF celo_quote_qty.tag = "Ok"
                 THEN <<CeloQuoteLine(base_qty, celo_quote_qty.v)>> ELSE <<>>),
     exit |-> Ok("unit")]

\* main.rs:104-107: exchange_show after the join: unwrap and print each quote in turn
exchange_show_print(base_qty, cusd_quote_qty, celo_quote_qty) ==
    IF cusd_quote_qty.tag # "Ok"
    THEN [out |-> <<>>, exit |-> Panic("exchange_show")]
    ELSE IF celo_quote_qty.tag # "Ok"
    THEN [out |-> <<CusdQuoteLine(base_qty, cusd_quote_qty.v)>>,
          exit |-> Panic("exchange_show")]
    ELSE [out |-> <<CusdQuoteLine(base_qty, cusd_quote_qty.v),
                    CeloQuoteLine(base_qty, celo_quote_qty.v)>>,
          exit |-> Ok("unit")]

-----------------------------------------------------------------------------
(* The remote node *)

Call(to, fn, arg) == [to |-> to, fn |-> fn, arg |-> arg, resp |-> Pending]

LookupAnswers == {Ok(a) : a \in Addresses} \cup {Err("rpc")}
BalanceAnswers == {Ok(v) : v \in 0..MaxBalance} \cup {Err("rpc")}
QuoteAnswers == {Ok(v) : v \in 0..MaxAmount} \cup {Err("rpc")}

Answer(i, r) == [calls EXCEPT ![i].resp = r]

-----------------------------------------------------------------------------
(* State machine *)

NewFut == [st |-> "new", req |-> 0, token |-> None, out |-> None]
NewQuote == [st |-> "new", req |-> 0, res |-> Pending]

Commands ==
    {[cmd |-> "account_balance", address |-> a] : a \in Accounts}
    \cup {[cmd |-> "exchange_show", amount |-> n] : n \in 0..MaxAmount}

Init ==
    /\ args \in {[scheme |-> s, cmd |-> c] : s \in Schemes, c \in Commands}
    /\ pc = "main"
    /\ provider = "None"
    /\ connections = 0
    /\ calls = <<>>
    /\ fut = [t \in Branches |-> NewFut]
    /\ exchange = None
    /\ quote = [q \in Quotes |-> NewQuote]
    /\ done = <<>>
    /\ stdout = <<>>
    /\ exit = Running

\* the process ends with result r
Exit(r) == pc' = "exited" /\ exit' = r

\* main.rs:139-142: main up to the provider; `?` returns create_provider's error
CreateProvider ==
    /\ pc = "main"
    /\ \E connected \in BOOLEAN :
         LET p == create_provider(args.scheme, connected) IN
         /\ connections' = connections + p.connects
         /\ IF p.res.tag = "Ok"
            THEN /\ provider' = p.res.v
                 /\ pc' = "run_command"
                 /\ exit' = exit
            ELSE /\ provider' = provider
                 /\ Exit(p.res)
    /\ UNCHANGED <<args, calls, fut, exchange, quote, done, stdout>>

\* main.rs:110-119 run_command dispatching to account_balance, whose join! is
\* then polled
RunAccountBalance ==
    /\ pc = "run_command"
    /\ args.cmd.cmd = "account_balance"
    /\ pc' = "account_balance"
    /\ UNCHANGED <<args, provider, connections, calls, fut, exchange, quote, done, stdout, exit>>

\* first poll of branch t of the join: get_balance awaits get_erc20_token, which
\* awaits registry_lookup, which parses the registry address and issues the call.
\* join! polls its branches in the order they are written.
LookupIssue(t) ==
    /\ pc = "account_balance"
    /\ fut[t].st = "new"
    /\ \A u \in 1..(t - 1) : fut[u].st # "new"
    /\ LET registry_address == ParseAddress(REGISTRY_ADDRESS) IN
       IF registry_address.tag = "Ok"
       THEN /\ calls' = Append(calls, Call(registry_address.v, "getAddressForString",
                                           TokenName(t)))
            /\ fut' = [fut EXCEPT ![t].st = "lookup", ![t].req = Len(calls) + 1]
       ELSE \* `?` at celo.rs:43 and :19, then the Err arm of get_balance
            /\ calls' = calls
            /\ fut' = [fut EXCEPT ![t].st = "ready", ![t].out = None]
    /\ done' = IF fut'[t].st = "ready" THEN Append(done, t) ELSE done
    /\ UNCHANGED <<args, pc, provider, connections, exchange, quote, stdout, exit>>

\* the node answers the lookup of branch t; the branch goes on to balance_of
LookupReturns(t) ==
    /\ pc = "account_balance"
    /\ fut[t].st = "lookup"
    /\ \E r \in LookupAnswers :
         LET lookup == registry_lookup(r)
             maybe_token == get_erc20_token(lookup)
             answered == Answer(fut[t].req, r)
         IN
         CASE maybe_token.tag = "Panic" ->
                /\ calls' = answered
                /\ Exit(maybe_token)
                /\ fut' = fut
           [] maybe_token.tag = "Ok" ->
                /\ calls' = Append(answered,
                                   Call(maybe_token.v, "balanceOf", args.cmd.address))
                /\ fut' = [fut EXCEPT ![t].st = "balance_of",
                                      ![t].token = Some(maybe_token.v),
                                      ![t].req = Len(calls) + 1]
                /\ UNCHANGED <<pc, exit>>
           [] OTHER ->
                /\ calls' = answered
                /\ fut' = [fut EXCEPT ![t].st = "ready", ![t].out = None]
                /\ UNCHANGED <<pc, exit>>
    /\ done' = IF fut'[t].st = "ready" THEN Append(done, t) ELSE done
    /\ UNCHANGED <<args, provider, connections, exchange, quote, stdout>>

\* the node answers balance_of of branch t; get_balance returns
BalanceReturns(t) ==
    /\ pc = "account_balance"
    /\ fut[t].st = "balance_of"
    /\ \E r \in BalanceAnswers :
         /\ calls' = Answer(fut[t].req, r)
         /\ fut' = [fut EXCEPT ![t].st = "ready", ![t].out = get_balance(r)]
    /\ done' = Append(done, t)
    /\ UNCHANGED <<args, pc, provider, connections, exchange, quote, stdout, exit>>

\* main.rs:86-91: the join is complete; print and return Ok through run_command
\* and main
AccountBalancePrint ==
    /\ pc = "account_balance"
    /\ \A t \in Branches : fut[t].st = "ready"
    /\ stdout' = stdout \o account_balance_lines(fut[1].out, fut[2].out, fut[3].out)
    /\ Exit(Ok("unit"))
    /\ UNCHANGED <<args, provider, connections, calls, fut, exchange, quote, done>>

\* run_command dispatching to exchange_show, which awaits get_exchange, which
\* awaits registry_lookup
RunExchangeShow ==
    /\ pc = "run_command"
    /\ args.cmd.cmd = "exchange_show"
    /\ LET registry_address == ParseAddress(REGISTRY_ADDRESS) IN
       IF registry_address.tag = "Ok"
       THEN /\ calls' = Append(calls, Call(registry_address.v, "getAddressForString",
                                           EXCHANGE))
            /\ pc' = "get_exchange"
            /\ exit' = exit
       ELSE /\ calls' = calls
            /\ Exit(get_exchange(registry_address))
    /\ UNCHANGED <<args, provider, connections, fut, exchange, quote, done, stdout>>

\* the node answers the Exchange lookup
ExchangeLookupReturns ==
    /\ pc = "get_exchange"
    /\ \E r \in LookupAnswers :
         LET handle == get_exchange(registry_lookup(r)) IN
         /\ calls' = Answer(Len(calls), r)
         /\ IF handle.tag = "Ok"
            THEN /\ exchange' = Some(handle.v)
                 /\ pc' = "exchange_show"
                 /\ exit' = exit
            ELSE /\ exchange' = exchange
                 /\ Exit(handle)
    /\ UNCHANGED <<args, provider, connections, fut, quote, done, stdout>>

\* first poll of branch q of the join at main.rs:102
QuoteIssue(q) ==
    /\ pc = "exchange_show"
    /\ quote[q].st = "new"
    /\ \A u \in 1..(q - 1) : quote[u].st # "new"
    /\ calls' = Append(calls, Call(exchange.v, "getBuyTokenAmount",
                                   <<args.cmd.amount, SellGold(q)>>))
    /\ quote' = [quote EXCEPT ![q].st = "called", ![q].req = Len(calls) + 1]
    /\ UNCHANGED <<args, pc, provider, connections, fut, exchange, done, stdout, exit>>

\* the node answers quote call q
QuoteReturns(q) ==
    /\ pc = "exchange_show"
    /\ quote[q].st = "called"
    /\ \E r \in QuoteAnswers :
         /\ calls' = Answer(quote[q].req, r)
         /\ quote' = [quote EXCEPT ![q].st = "ready", ![q].res = r]
    /\ done' = Append(done, q)
    /\ UNCHANGED <<args, pc, provider, connections, fut, exchange, stdout, exit>>

\* main.rs:104-107: the join is complete
ExchangeShowPrint ==
    /\ pc = "exchange_show"
    /\ \A q \in Quotes : quote[q].st = "ready"
    /\ LET p == exchange_show_print(args.cmd.amount, quote[1].res, quote[2].res) IN
       /\ stdout' = stdout \o p.out
       /\ Exit(p.exit)
    /\ UNCHANGED <<args, provider, connections, calls, fut, exchange, quote, done>>

Next ==
    \/ CreateProvider
    \/ RunAccountBalance
    \/ \E t \in Branches : LookupIssue(t)
    \/ \E t \in Branches : LookupReturns(t)
    \/ \E t \in Branches : BalanceReturns(t)
    \/ AccountBalancePrint
    \/ RunExchangeShow
    \/ ExchangeLookupReturns
    \/ \E q \in Quotes : QuoteIssue(q)
    \/ \E q \in Quotes : QuoteReturns(q)
    \/ ExchangeShowPrint

Spec == Init /\ [][Next]_vars

-----------------------------------------------------------------------------
(* Vocabulary of the properties *)

IsAccountBalance == args.cmd.cmd = "account_balance"
IsExchangeShow == args.cmd.cmd = "exchange_show"
Exited == pc = "exited"
\* a command handler has been entered
HandlerRan == pc \in {"account_balance", "get_exchange", "exchange_show"} \/ calls # <<>>

Printed(line) == \E i \in 1..Len(stdout) : stdout[i] = line

LookupCalls == {i \in DOMAIN calls : calls[i].fn = "getAddressForString"}
BalanceCalls == {i \in DOMAIN calls : calls[i].fn = "balanceOf"}
QuoteCalls == {i \in DOMAIN calls : calls[i].fn = "getBuyTokenAmount"}
Failed(i) == calls[i].resp.tag = "Err"
Succeeded(i) == calls[i].resp.tag = "Ok"

\* the node's answer to the lookup of a name (Pending when not asked or not answered)
LookupAnswer(name) ==
    IF \E i \in LookupCalls : calls[i].arg = name
    THEN calls[CHOOSE i \in LookupCalls : calls[i].arg = name].resp
    ELSE Pending

\* the node's answer to the balanceOf call of branch t
BalanceAnswer(t) ==
    IF fut[t].token.tag = "Some" THEN calls[fut[t].req].resp ELSE Pending

\* the node's answer to getBuyTokenAmount(amount, sell_gold)
QuoteAnswer(sell_gold) ==
    IF \E i \in QuoteCalls : calls[i].arg[2] = sell_gold
    THEN calls[CHOOSE i \in QuoteCalls : calls[i].arg[2] = sell_gold].resp
    ELSE Pending

\* branch t's lookup and balanceOf were both answered with Ok
TokenSucceeded(t) == LookupAnswer(TokenName(t)).tag = "Ok" /\ BalanceAnswer(t).tag = "Ok"
\* branch t's lookup or balanceOf was answered with Err
TokenFailed(t) == LookupAnswer(TokenName(t)).tag = "Err" \/ BalanceAnswer(t).tag = "Err"

\* the line of a token whose balanceOf answered, and nothing otherwise
TokenLine(t) ==
    IF TokenSucceeded(t) THEN <<Label(t) \o ": " \o DecStr(BalanceAnswer(t).v)>> ELSE <<>>

\* some line with label of branch t is on stdout
LabelPrinted(t) == \E v \in 0..MaxBalance : Printed(Label(t) \o ": " \o DecStr(v))

-----------------------------------------------------------------------------
(* C1 *)

\* C1: in `account balance`, whatever the node answers to the three lookups and
\* the three balanceOf calls, the process does not crash, the command finishes
\* with a success result, and exactly the tokens whose lookup and balanceOf both
\* succeeded have their line printed.
C1_FailuresSilentlyDropped ==
    IsAccountBalance =>
        /\ exit.tag # "Panic"
        /\ (Exited /\ HandlerRan) =>
              /\ exit = Ok("unit")
              /\ stdout = <<HeaderLine>> \o TokenLine(1) \o TokenLine(2) \o TokenLine(3)

-----------------------------------------------------------------------------
(* C4 *)

\* C4: registry_lookup hands its caller either the address the registry answered
\* or a failure value; an error of the remote call never aborts the caller.
C4_LookupReturnsOutcome ==
    \A i \in LookupCalls :
        /\ Failed(i) => exit # Panic("registry_lookup")
        /\ (Succeeded(i) /\ IsExchangeShow) => exchange = Some(calls[i].resp.v)
        /\ (Succeeded(i) /\ IsAccountBalance) =>
              \E t \in Branches : calls[i].arg = TokenName(t)
                                  /\ fut[t].token = Some(calls[i].resp.v)

-----------------------------------------------------------------------------
(* C3 *)

\* C3: in both joins, once the command has ended every join partner that
\* succeeded has its result printed and every partner that failed has none,
\* whichever partner failed.
C3_JoinPartnersIndependent ==
    (Exited /\ HandlerRan) =>
        /\ IsAccountBalance =>
              \A t \in Branches :
                  /\ TokenSucceeded(t) => Printed(Label(t) \o ": " \o DecStr(BalanceAnswer(t).v))
                  /\ TokenFailed(t) => ~LabelPrinted(t)
        /\ IsExchangeShow =>
              /\ QuoteAnswer(TRUE).tag = "Ok" =>
                    Printed(CusdQuoteLine(args.cmd.amount, QuoteAnswer(TRUE).v))
              /\ QuoteAnswer(FALSE).tag = "Ok" =>
                    Printed(CeloQuoteLine(args.cmd.amount, QuoteAnswer(FALSE).v))

-----------------------------------------------------------------------------
(* C9 *)

\* C9: no call is issued twice; when `account balance` has ended it has issued
\* exactly three lookups, one per token name, and at most three balanceOf calls;
\* `exchange show` issues exactly one lookup and at most two quote calls.
C9_EachCallOnce ==
    /\ \A i, j \in LookupCalls : calls[i].arg = calls[j].arg => i = j
    /\ \A i, j \in QuoteCalls : calls[i].arg = calls[j].arg => i = j
    /\ \A t, u \in Branches :
          (fut[t].token.tag = "Some" /\ fut[u].token.tag = "Some" /\ fut[t].req = fut[u].req)
              => t = u
    /\ IsAccountBalance =>
          /\ Cardinality(BalanceCalls) <= 3
          /\ QuoteCalls = {}
          /\ (Exited /\ HandlerRan) =>
                /\ Cardinality(LookupCalls) = 3
                /\ \A t \in Branches : \E i \in LookupCalls : calls[i].arg = TokenName(t)
    /\ IsExchangeShow =>
          /\ Cardinality(QuoteCalls) <= 2
          /\ BalanceCalls = {}
          /\ HandlerRan => Cardinality(LookupCalls) = 1

-----------------------------------------------------------------------------
(* C2 *)

KnownSchemes == {"http", "https", "ws", "wss"}

\* C2: http and https select the HTTP transport, ws and wss the WebSocket
\* transport; any other scheme ends the process with an error whose message
\* names the scheme, with no connection opened, no remote call issued and no
\* command handler entered.
C2_ProviderSelection ==
    /\ pc = "main" => (provider = "None" /\ connections = 0)
    /\ pc # "main" =>
          /\ args.scheme \in {"http", "https"} => (provider = "Http" /\ connections = 0)
          /\ args.scheme \in {"ws", "wss"} =>
                \/ provider = "Ws"
                \/ provider = "None" /\ exit.tag = "Err" /\ ~HandlerRan
          /\ args.scheme \notin KnownSchemes =>
                /\ Exited
                /\ exit = Err("Unknown URL scheme \"" \o args.scheme \o "\"")
                /\ provider = "None"
                /\ connections = 0
                /\ calls = <<>>
                /\ ~HandlerRan
                /\ stdout = <<>>

C2_Witness ==
    /\ args.scheme = "ftp"
    /\ Exited
    /\ exit = Err("Unknown URL scheme \"ftp\"")
    /\ calls = <<>>

-----------------------------------------------------------------------------
(* C5 *)

\* C5: a balanceOf answer of Ok(v), v = 0 included, makes get_balance return
\* Some(v), never None; when the command succeeds each such token has the line
\* "<label>: <v>", and every token line printed shows the value its balanceOf
\* call returned.
C5_ZeroBalancePrinted ==
    IsAccountBalance =>
        /\ \A t \in Branches :
              (fut[t].st = "ready" /\ BalanceAnswer(t).tag = "Ok")
                  => fut[t].out = Some(BalanceAnswer(t).v)
        /\ exit = Ok("unit") =>
              \A t \in Branches :
                  BalanceAnswer(t).tag = "Ok"
                      => Printed(Label(t) \o ": " \o DecStr(BalanceAnswer(t).v))
        /\ \A i \in 2..Len(stdout) :
              \E t \in Branches :
                  /\ BalanceAnswer(t).tag = "Ok"
                  /\ stdout[i] = Label(t) \o ": " \o DecStr(BalanceAnswer(t).v)

C5_Witness ==
    /\ IsAccountBalance
    /\ \A t \in Branches : BalanceAnswer(t) = Ok(0)
    /\ exit = Ok("unit")
    /\ stdout = <<HeaderLine, "CELO: 0", "cUSD: 0", "cEUR: 0">>

-----------------------------------------------------------------------------
(* C6 *)

\* C6: in `exchange show` the first line printed is "<amount> CELO => <q> cUSD"
\* with q the answer to getBuyTokenAmount(amount, true), the second is
\* "<amount> cUSD => <q> CELO" with q the answer to getBuyTokenAmount(amount,
\* false), in whichever order the two calls completed.
C6_QuoteLinesMatchDirections ==
    IsExchangeShow =>
        /\ Len(stdout) <= 2
        /\ Len(stdout) >= 1 =>
              /\ QuoteAnswer(TRUE).tag = "Ok"
              /\ stdout[1] = DecStr(args.cmd.amount) \o " CELO => "
                                \o DecStr(QuoteAnswer(TRUE).v) \o " cUSD"
        /\ Len(stdout) >= 2 =>
              /\ QuoteAnswer(FALSE).tag = "Ok"
              /\ stdout[2] = DecStr(args.cmd.amount) \o " cUSD => "
                                \o DecStr(QuoteAnswer(FALSE).v) \o " CELO"
        /\ exit = Ok("unit") => Len(stdout) = 2

\* the false call completed first and the two quotes differ
C6_Witness ==
    /\ IsExchangeShow
    /\ done = <<2, 1>>
    /\ QuoteAnswer(TRUE) = Ok(1)
    /\ QuoteAnswer(FALSE) = Ok(0)
    /\ stdout = <<"1 CELO => 1 cUSD", "1 cUSD => 0 CELO">>

-----------------------------------------------------------------------------
(* C7 *)

SomeCallFailed == \E i \in DOMAIN calls : Failed(i)

\* C7 as stated: in `exchange show`, from the moment a remote call has failed
\* no further remote call is issued and no line is printed, and the command ends
\* in failure; a failed Exchange lookup leaves zero quote calls and zero lines.
C7_FailureAbortsAtOnce ==
    /\ [][(IsExchangeShow /\ SomeCallFailed)
              => (Len(calls') = Len(calls) /\ stdout' = stdout)]_vars
    /\ []((IsExchangeShow /\ SomeCallFailed /\ Exited) => exit.tag \in {"Panic", "Err"})
    /\ []((IsExchangeShow /\ LookupAnswer(EXCHANGE).tag = "Err")
              => (QuoteCalls = {} /\ stdout = <<>>))

\* C7 amended: in `exchange show` a failed remote call ends the command in
\* failure (a panic) and no line is printed for a failed quote or after it, but
\* the other quote call is not cancelled: a failed Exchange lookup ends the
\* process at once with zero quote calls and zero lines; a failed `true` quote
\* leaves zero lines; a failed `false` quote alone leaves exactly the
\* CELO => cUSD line, printed after the failure; lines are printed only once
\* both quote calls have been issued and answered.
C7_FailureAborts ==
    IsExchangeShow =>
        /\ LookupAnswer(EXCHANGE).tag = "Err" =>
              /\ exit = Panic("registry_lookup")
              /\ QuoteCalls = {}
              /\ stdout = <<>>
        /\ SomeCallFailed => exit.tag \in {"Running", "Panic"}
        /\ (SomeCallFailed /\ Exited) => exit.tag = "Panic"
        /\ QuoteAnswer(TRUE).tag = "Err" => stdout = <<>>
        /\ QuoteAnswer(FALSE).tag = "Err" =>
              /\ Len(stdout) <= 1
              /\ (Exited /\ QuoteAnswer(TRUE).tag = "Ok") =>
                    stdout = <<CusdQuoteLine(args.cmd.amount, QuoteAnswer(TRUE).v)>>
        /\ stdout # <<>> =>
              /\ Cardinality(QuoteCalls) = 2
              /\ \A i \in QuoteCalls : calls[i].resp.tag # "Pending"

\* the false quote failed, and the first line was printed all the same
C7_Witness ==
    /\ IsExchangeShow
    /\ QuoteAnswer(FALSE).tag = "Err"
    /\ QuoteAnswer(TRUE) = Ok(0)
    /\ stdout = <<"1 CELO => 0 cUSD">>
    /\ exit = Panic("exchange_show")

-----------------------------------------------------------------------------
(* C8 *)

\* the balanceOf call i was issued by branch t
IssuedBy(i, t) == fut[t].token.tag = "Some" /\ fut[t].req = i

\* C8: every registry lookup goes to 0x...ce10; every balanceOf call was issued
\* after the lookup of its own token name was answered, goes to the address that
\* lookup returned and asks for the account given; every quote call was issued
\* after the Exchange lookup was answered and goes to the address it returned.
C8_CallsFollowLookup ==
    \A i \in DOMAIN calls :
        /\ i \in LookupCalls => calls[i].to = 12 * 4096 + 14 * 256 + 1 * 16 + 0
        /\ i \in BalanceCalls =>
              \E t \in Branches :
                  /\ IssuedBy(i, t)
                  /\ calls[i].arg = args.cmd.address
                  /\ \E j \in LookupCalls :
                        /\ j < i
                        /\ calls[j].arg = TokenName(t)
                        /\ calls[j].resp = Ok(calls[i].to)
        /\ i \in QuoteCalls =>
              \E j \in LookupCalls :
                  /\ j < i
                  /\ calls[j].arg = EXCHANGE
                  /\ calls[j].resp = Ok(calls[i].to)

\* cUSD's balanceOf is issued, to the address looked up, while the lookups of
\* the two other tokens are still unanswered
C8_Witness ==
    /\ IsAccountBalance
    /\ fut[2].st = "balance_of"
    /\ fut[2].token = Some(1)
    /\ LookupAnswer(STABLE_TOKEN) = Ok(1)
    /\ fut[1].st = "lookup"
    /\ fut[3].st = "lookup"

-----------------------------------------------------------------------------
(* C10 *)

\* C10: `account balance` prints nothing until all three balance queries have
\* finished; what it prints is the header, then the lines of the answered
\* tokens in the order CELO, cUSD, cEUR, each at most once, whatever the order
\* in which the queries completed.
C10_OutputOrderFixed ==
    IsAccountBalance =>
        (stdout # <<>> =>
            /\ \A t \in Branches : fut[t].st = "ready"
            /\ stdout = <<HeaderLine>> \o TokenLine(1) \o TokenLine(2) \o TokenLine(3))

\* the queries completed in the order cEUR, cUSD, CELO
C10_Witness ==
    /\ IsAccountBalance
    /\ done = <<3, 2, 1>>
    /\ stdout = <<HeaderLine, "CELO: 1", "cUSD: 0", "cEUR: 1">>

=============================================================================
